---- MODULE Spec2Model ----
(***************************************************************************)
(* A model of bokeh/mpl.py: the conversion of a matplotlib Axes into a     *)
(* bokeh Plot (axes2plot and its helpers) and the hand-drawn line filter   *)
(* xkcd_line.                                                              *)
(*                                                                         *)
(* Python values are tagged records [t |-> type, v |-> value]; a float is  *)
(* the rational [n |-> numerator, d |-> denominator]; a raised exception   *)
(* is the value Raise(name).  One behaviour is one call of one function    *)
(* of the module: Init is the freshly imported module, the Call actions    *)
(* enter a function, and axes2plot then runs one helper call per step.     *)
(***************************************************************************)
EXTENDS Integers, Sequences, FiniteSets, TLC

VARIABLES
    pc,          \* position of the running call; "idle" before any call
    fn,          \* name of the function called
    arg,         \* its arguments
    ret,         \* its return value, or Raise(e); NoRet while running
    lines,       \* axes2plot: local lines    (line 50)
    markers,     \* axes2plot: local markers  (line 51)
    cols,        \* axes2plot: local cols     (line 52)
    idx,         \* axes2plot: position in the list being converted
    renderers,   \* axes2plot: local renderers (lines 53-58)
    plot,        \* the Plot: renderers, axes, grids, tools
    datasource,  \* ColumnDataSource: the columns, in the order added
    xdr,         \* plot.x_range.sources
    ydr,         \* plot.y_range.sources
    warned,      \* warnings.warn calls so far, in order
    xkcd_calls   \* xkcd_line invocations so far: <<segment, draw>> in order

vars == <<pc, fn, arg, ret, lines, markers, cols, idx, renderers, plot,
          datasource, xdr, ydr, warned, xkcd_calls>>

----------------------------------------------------------------------------
(* Python values *)

PyNone == [t |-> "NoneType", v |-> "None"]
Str(s) == [t |-> "str", v |-> s]
\* tb: the pass of axes2plot the exception left from ("" outside axes2plot)
Raise(e) == [t |-> "raise", v |-> e, tb |-> ""]
NoRet == [t |-> "running", v |-> ""]
\* a tuple; of = "float" (elements are rationals) or "int"
Tuple(of, s) == [t |-> "tuple", of |-> of, v |-> s]
Rat(n, d) == [n |-> n, d |-> d]

IsRaise(r) == r.t = "raise"

\* int(255 * f) for a float f >= 0: truncation of the product
Int255(f) == (255 * f.n) \div f.d

\* float(s) for the strings the model uses: the decimal literal's value,
\* and no entry (ValueError) for a string that is no number
FloatLiterals ==
    [s \in {"0", "1", "0.0", "1.0", "0.5", "0.25", "0.75", "0.2", "2.0",
            "1.5", "-0.5"} |->
        CASE s = "0" -> Rat(0, 1)    [] s = "1" -> Rat(1, 1)
          [] s = "0.0" -> Rat(0, 1)  [] s = "1.0" -> Rat(1, 1)
          [] s = "0.5" -> Rat(1, 2)  [] s = "0.25" -> Rat(1, 4)
          [] s = "0.75" -> Rat(3, 4) [] s = "0.2" -> Rat(1, 5)
          [] s = "2.0" -> Rat(2, 1)  [] s = "1.5" -> Rat(3, 2)
          [] s = "-0.5" -> Rat(-1, 2)]

\* float(x): [ok, f]; not ok stands for the TypeError / ValueError that the
\* bare except of _convert_color swallows
PyFloat(x) ==
    IF x.t = "str" /\ x.v \in DOMAIN FloatLiterals
    THEN [ok |-> TRUE, f |-> FloatLiterals[x.v]]
    ELSE [ok |-> FALSE, f |-> Rat(0, 1)]

----------------------------------------------------------------------------
(* _convert_color, lines 80-98 *)

charmap ==
    [c \in {"b", "g", "r", "c", "m", "y", "k", "w"} |->
        CASE c = "b" -> "blue"    [] c = "g" -> "green" [] c = "r" -> "red"
          [] c = "c" -> "cyan"    [] c = "m" -> "magenta"
          [] c = "y" -> "yellow"  [] c = "k" -> "black" [] c = "w" -> "white"]

\* mutant: only 3-tuples are converted, other tuples pass through
convert_color_3only(mplcolor) ==
    IF mplcolor.t = "str" /\ mplcolor.v \in DOMAIN charmap
    THEN Str(charmap[mplcolor.v])
    ELSE LET fl == PyFloat(mplcolor) IN
         IF fl.ok /\ 0 <= fl.f.n /\ fl.f.n <= fl.f.d
         THEN Tuple("int", <<Int255(fl.f), Int255(fl.f), Int255(fl.f)>>)
         ELSE IF mplcolor.t = "tuple" /\ Len(mplcolor.v) = 3
         THEN Tuple("int", <<Int255(mplcolor.v[1]), Int255(mplcolor.v[2]),
                             Int255(mplcolor.v[3])>>)
         ELSE mplcolor

convert_color(mplcolor) ==
    IF mplcolor.t = "str" /\ mplcolor.v \in DOMAIN charmap
    THEN Str(charmap[mplcolor.v])
    ELSE LET fl == PyFloat(mplcolor) IN
         IF fl.ok /\ 0 <= fl.f.n /\ fl.f.n <= fl.f.d
         THEN Tuple("int", <<Int255(fl.f), Int255(fl.f), Int255(fl.f)>>)
         ELSE IF mplcolor.t = "tuple"
         THEN IF Len(mplcolor.v) < 3
              THEN Raise("IndexError")
              ELSE Tuple("int", <<Int255(mplcolor.v[1]), Int255(mplcolor.v[2]),
                                  Int255(mplcolor.v[3])>>)
         ELSE mplcolor

----------------------------------------------------------------------------
(* _convert_dashes, lines 101-115 *)

mpl_dash_map ==
    [d \in {"-", "--", ":", "-."} |->
        CASE d = "-" -> "solid" [] d = "--" -> "dashed"
          [] d = ":" -> "dotted" [] d = "-." -> "dashdot"]

convert_dashes(dash) ==
    IF dash.t = "str" /\ dash.v \in DOMAIN mpl_dash_map
    THEN Str(mpl_dash_map[dash.v])
    ELSE dash

----------------------------------------------------------------------------
(* _get_props_cycled, lines 118-133 *)

\* mpl.colors.rgb2hex: the colour's hex string, one per colour
rgb2hex(x) == [t |-> "hex", v |-> x]

\* the fx argument: "rgb2hex" is lambda x: mpl.colors.rgb2hex(x), "identity"
\* the default lambda x: x
apply(fx, x) == IF fx = "rgb2hex" THEN rgb2hex(x) ELSE x

\* itertools.cycle under islice(.., None, n): the saved copy of the iterable
\* is replayed from position pos until n items were taken; an empty saved
\* copy ends the iteration at once
RECURSIVE islice_cycle(_, _, _, _)
islice_cycle(saved, pos, n, acc) ==
    IF Len(saved) = 0 \/ Len(acc) >= n THEN acc
    ELSE islice_cycle(saved, IF pos = Len(saved) THEN 1 ELSE pos + 1, n,
                      Append(acc, saved[pos]))

\* mutant: the property list is sliced without being cycled
get_props_sliced(col, prop, fx) ==
    LET n == Len(col.paths)
        t_prop == [i \in 1..Len(prop) |-> apply(fx, prop[i])]
    IN SubSeq(t_prop, 1, IF n < Len(t_prop) THEN n ELSE Len(t_prop))

get_props_cycled(col, prop, fx) ==
    LET n == Len(col.paths)
        t_prop == [i \in 1..Len(prop) |-> apply(fx, prop[i])]
    IN islice_cycle(t_prop, 1, n, <<>>)


----------------------------------------------------------------------------
(* text_props, lines 198-218 *)

alignment_map ==
    [a \in {"center", "top", "bottom"} |->
        CASE a = "center" -> "middle" [] a = "top" -> "top"
          [] a = "bottom" -> "bottom"]

fontstyle_map ==
    [s \in {"oblique", "normal", "italic"} |->
        CASE s = "oblique" -> "italic" [] s = "normal" -> "normal"
          [] s = "italic" -> "italic"]

\* mutant: only the weight "bold" is handled
font_style_bold_only(mplText) ==
    IF mplText.fontstyle \notin DOMAIN fontstyle_map THEN Raise("KeyError")
    ELSE IF mplText.weight = "bold" THEN Str("bold")
    ELSE Str(fontstyle_map[mplText.fontstyle])

\* lines 206-209: the value text_font_style ends with, or the KeyError of
\* the style lookup
font_style(mplText) ==
    IF mplText.fontstyle \notin DOMAIN fontstyle_map THEN Raise("KeyError")
    ELSE IF mplText.weight \in {"bold", "heavy"} THEN Str("bold")
    ELSE Str(fontstyle_map[mplText.fontstyle])

\* The fields text_props has set on obj when it returns or raises: the
\* setattr calls of lines 206-213 take effect in order, and those before the
\* failing one stay on obj.
text_props_set(mplText) ==
    LET style == font_style(mplText)
        color == convert_color(mplText.color)
    IN IF IsRaise(style) THEN [t |-> "TextProps"]
       ELSE IF IsRaise(color)
       THEN [t |-> "TextProps", text_font_style |-> style.v]
       ELSE IF mplText.verticalalignment \notin DOMAIN alignment_map
       THEN [t |-> "TextProps", text_font_style |-> style.v,
             text_color |-> color]
       ELSE [t |-> "TextProps", text_font_style |-> style.v,
             text_color |-> color,
             text_baseline |-> alignment_map[mplText.verticalalignment]]

\* The fields text_props sets on obj, or the exception of the first failing
\* step (line 206, line 212, line 213).
text_props(mplText) ==
    IF IsRaise(font_style(mplText))
    THEN font_style(mplText)
    ELSE IF IsRaise(convert_color(mplText.color))
    THEN convert_color(mplText.color)
    ELSE IF mplText.verticalalignment \notin DOMAIN alignment_map
    THEN Raise("KeyError")
    ELSE [t |-> "TextProps",
          text_font_style |-> font_style(mplText).v,
          text_color |-> convert_color(mplText.color),
          text_baseline |-> alignment_map[mplText.verticalalignment]]

----------------------------------------------------------------------------
(* numpy arrays of coordinates *)

SeqMin(s) == CHOOSE m \in {s[i] : i \in DOMAIN s} : \A i \in DOMAIN s : m <= s[i]
SeqMax(s) == CHOOSE m \in {s[i] : i \in DOMAIN s} : \A i \in DOMAIN s : m >= s[i]

RECURSIVE SeqSum(_)
SeqSum(s) == IF Len(s) = 0 THEN 0 ELSE s[1] + SeqSum(Tail(s))

\* xydata[:, c] of an N x 2 array (c counted from 1)
Column(xydata, c) == [i \in 1..Len(xydata) |-> xydata[i][c]]

\* mutant: the first index is removed instead of the last
delete_first_col(x) == [i \in 1..Len(x) |-> SubSeq(x[i], 2, Len(x[i]))]

\* np.delete(x, -1, axis=1) of a 3-d array x[i][j][k]: the last index of the
\* second axis is removed from every x[i]
delete_last_col(x) == [i \in 1..Len(x) |-> SubSeq(x[i], 1, Len(x[i]) - 1)]

\* np.transpose of a 3-d array: the axes reversed, t[k][j][i] = x[i][j][k]
transpose3(x) ==
    [k \in 1..Len(x[1][1]) |->
        [j \in 1..Len(x[1]) |-> [i \in 1..Len(x) |-> x[i][j][k]]]]

\* np.transpose of a 2-d array
transpose2(x) == [k \in 1..Len(x[1]) |-> [j \in 1..Len(x) |-> x[j][k]]]

\* Path.to_polygons() of a path that is one polygon: the list of its one
\* vertex array
to_polygons(path) == <<path>>

----------------------------------------------------------------------------
(* xkcd_line, lines 360-433 *)

IsSquare(q) == \E r \in 0..q : r * r = q
Sqrt(q) == CHOOSE r \in 0..q : r * r = q

\* lines 387-396: the limits used for rescaling
xkcd_limits(x, y, xlim, ylim) ==
    LET xl0 == IF xlim.t = "NoneType" THEN <<SeqMin(x), SeqMax(x)>> ELSE xlim.v
        yl0 == IF ylim.t = "NoneType" THEN <<SeqMin(y), SeqMax(y)>> ELSE ylim.v
        xl1 == IF xl0[2] = xl0[1] THEN yl0 ELSE xl0
        yl1 == IF yl0[2] = yl0[1] THEN xl1 ELSE yl0
    IN [x |-> xl1, y |-> yl1]

\* lines 399-405: dist_tot as the rational n / d.  With W and H the widths of
\* the limits, segment i has rescaled length
\* sqrt((dx_i * H)^2 + (dy_i * W)^2) / (W * H).
xkcd_radicands(x, y, lim) ==
    LET W == lim.x[2] - lim.x[1]
        H == lim.y[2] - lim.y[1]
    IN [i \in 1..(Len(x) - 1) |->
           ((x[i + 1] - x[i]) * H) * ((x[i + 1] - x[i]) * H)
         + ((y[i + 1] - y[i]) * W) * ((y[i + 1] - y[i]) * W)]

dist_tot(x, y, lim) ==
    LET rad == xkcd_radicands(x, y, lim)
    IN Rat(SeqSum([i \in 1..Len(rad) |-> Sqrt(rad[i])]),
           (lim.x[2] - lim.x[1]) * (lim.y[2] - lim.y[1]))

\* An array of n consecutive samples of the fitted spline's coordinate axis,
\* the first at parameter u = first / (Nu - 1); noise is <<mag, draw>> for the
\* samples displaced by the filtered random perturbation of that draw, <<>>
\* for samples not displaced; lim the limits the samples are un-scaled to
\* (<<>> while still in the rescaled space).
Samples(axis, first, n, noise, lim) ==
    [t |-> "ndarray", axis |-> axis, first |-> first, n |-> n,
     noise |-> noise, lim |-> lim]

\* np.arange(a, b): first value and length
arange(a, b) == [first |-> a, n |-> IF b > a THEN b - a ELSE 0]

\* a[1:-1]
inner(a) == [a EXCEPT !.first = a.first + 1,
                      !.n = IF a.n >= 2 THEN a.n - 2 ELSE 0]

\* mutant: the two boundary samples are returned with the rest
xkcd_line_keep_boundary(x, y, xlim, ylim, mag, draw) ==
    LET lim == xkcd_limits(x, y, xlim, ylim)
        L == dist_tot(x, y, lim)
        Nu == (200 * L.n) \div L.d
        u == arange(-1, Nu + 1)
    IN IF L.d = 0 THEN Raise("ValueError")
       ELSE [t |-> "xy",
             x |-> Samples("x", u.first, u.n, <<mag, draw>>, lim.x),
             y |-> Samples("y", u.first, u.n, <<mag, draw>>, lim.y)]

\* mag: the magnitude argument; draw: the outcome of np.random.normal
xkcd_line(x, y, xlim, ylim, mag, draw) ==
    LET lim == xkcd_limits(x, y, xlim, ylim)
        L == dist_tot(x, y, lim)
        \* line 408
        Nu == (200 * L.n) \div L.d
        \* line 409
        u == arange(-1, Nu + 1)
        \* line 414: one spline value per sample of u
        x_int == Samples("x", u.first, u.n, <<>>, <<>>)
        y_int == Samples("y", u.first, u.n, <<>>, <<>>)
        \* line 422: len(x_int) - 2 random coefficients, filtered (line 424)
        response == [n |-> x_int.n - 2, noise |-> <<mag, draw>>]
        \* lines 426-431: the inner samples displaced, then un-scaled
        x_out == [inner(x_int) EXCEPT !.noise = response.noise, !.lim = lim.x]
        y_out == [inner(y_int) EXCEPT !.noise = response.noise, !.lim = lim.y]
    IN \* both limits degenerate: the rescaled data are nan and int(nan)
       \* raises at line 408
       IF L.d = 0 THEN Raise("ValueError")
       ELSE [t |-> "xy", x |-> x_out, y |-> y_out]

----------------------------------------------------------------------------
(* ColumnDataSource and DataRange1d (bokeh/objects.py) *)

\* ColumnDataSource.add(data): the column is appended under a fresh name,
\* which is returned; the name is the column's position in the source
source_add(source, data) == [source |-> Append(source, data),
                             name |-> Len(source) + 1]

\* ColumnDataSource.columns(name): a reference to the named columns
source_columns(name) == [source |-> "datasource", columns |-> <<name>>]

----------------------------------------------------------------------------
(* line_props, lines 141-153 *)

cap_style_map ==
    [c \in {"butt", "round", "projecting"} |->
        CASE c = "butt" -> "butt" [] c = "round" -> "round"
          [] c = "projecting" -> "square"]

line_props(line2d) ==
    IF line2d.solid_capstyle \notin DOMAIN cap_style_map
    THEN Raise("KeyError")
    ELSE [t |-> "LineProps",
          line_width |-> line2d.linewidth,
          line_cap |-> cap_style_map[line2d.solid_capstyle],
          line_dash |-> convert_dashes(line2d.linestyle)]

----------------------------------------------------------------------------
(* The _make_* helpers.  Each returns the effect of one call:                *)
(*   source, xdr, ydr : the data source and the two ranges after the call   *)
(*   ret              : the Glyph returned, or Raise(e)                     *)
(*   warned           : the warnings issued by the call                     *)
(*   calls            : the xkcd_line invocations of the call, in order     *)

Effect(source, xs, ys, r, w, calls) ==
    [source |-> source, xdr |-> xs, ydr |-> ys, ret |-> r, warned |-> w,
     calls |-> calls]

\* Glyph(data_source, xdata_range, ydata_range, glyph): kind is the glyph's
\* class, x and y its geometry columns, style its style columns, props its
\* scalar properties, of the identity of the source object
Glyph(kind, of, x, y, style, props) ==
    [t |-> "Glyph", glyph |-> kind, of |-> of, x |-> x, y |-> y,
     style |-> style, props |-> props]

\* mutant: both columns are registered into both ranges
make_line_both_ranges(source, xs, ys, line2d, xkcd, draw) ==
    LET xydata == line2d.xydata
        sk == xkcd_line(Column(xydata, 1), Column(xydata, 2), PyNone, PyNone,
                        1, draw)
        x == IF xkcd THEN sk.x ELSE Column(xydata, 1)
        y == IF xkcd THEN sk.y ELSE Column(xydata, 2)
        calls == IF xkcd THEN <<[of |-> line2d.id, seg |-> 1, draw |-> draw]>>
                 ELSE <<>>
        ax == source_add(source, x)
        ay == source_add(ax.source, y)
        both == <<source_columns(ax.name), source_columns(ay.name)>>
        props == line_props(line2d)
    IN IF xkcd /\ IsRaise(sk) THEN Effect(source, xs, ys, sk, <<>>, calls)
       ELSE Effect(ay.source, xs \o both, ys \o both,
                   IF IsRaise(props) THEN props
                   ELSE Glyph("Line", line2d.id, ax.name, ay.name, <<>>,
                              IF xkcd THEN [props EXCEPT !.line_width = 3]
                              ELSE props),
                   <<>>, calls)

\* _make_line, lines 262-281
make_line(source, xs, ys, line2d, xkcd, draw) ==
    LET xydata == line2d.xydata
        \* line 268
        sk == xkcd_line(Column(xydata, 1), Column(xydata, 2), PyNone, PyNone,
                        1, draw)
        x == IF xkcd THEN sk.x ELSE Column(xydata, 1)
        y == IF xkcd THEN sk.y ELSE Column(xydata, 2)
        calls == IF xkcd THEN <<[of |-> line2d.id, seg |-> 1, draw |-> draw]>>
                 ELSE <<>>
        \* lines 271-274
        ax == source_add(source, x)
        ay == source_add(ax.source, y)
        \* line 276
        props == line_props(line2d)
    IN IF xkcd /\ IsRaise(sk) THEN Effect(source, xs, ys, sk, <<>>, calls)
       ELSE Effect(ay.source,
                   Append(xs, source_columns(ax.name)),
                   Append(ys, source_columns(ay.name)),
                   IF IsRaise(props) THEN props
                   \* line 278: line_width = 3 in sketch mode
                   ELSE Glyph("Line", line2d.id, ax.name, ay.name, <<>>,
                              IF xkcd THEN [props EXCEPT !.line_width = 3]
                              ELSE props),
                   <<>>, calls)

marker_map ==
    [m \in {"o", "s", "+", "^", "v", "x", "D", "*"} |->
        CASE m = "o" -> "Circle" [] m = "s" -> "Square" [] m = "+" -> "Cross"
          [] m = "^" -> "Triangle" [] m = "v" -> "InvertedTriangle"
          [] m = "x" -> "Xmarker" [] m = "D" -> "Diamond"
          [] m = "*" -> "Asterisk"]

\* mutant: an unknown marker is skipped after the warning, with a default
\* glyph, instead of failing the lookup
make_marker_tolerant(source, xs, ys, line2d) ==
    LET known == line2d.marker.t = "str" /\ line2d.marker.v \in DOMAIN marker_map
        w == IF known THEN <<>> ELSE <<"Unable to handle marker">>
        ax == source_add(source, Column(line2d.xydata, 1))
        ay == source_add(ax.source, Column(line2d.xydata, 2))
    IN Effect(ay.source,
              Append(xs, source_columns(ax.name)),
              Append(ys, source_columns(ay.name)),
              Glyph(IF known THEN marker_map[line2d.marker.v] ELSE "Circle",
                    line2d.id, ax.name, ay.name, <<>>,
                    [t |-> "MarkerProps"]),
              w, <<>>)

\* _make_marker, lines 284-313
make_marker(source, xs, ys, line2d) ==
    LET known == line2d.marker.t = "str" /\ line2d.marker.v \in DOMAIN marker_map
        \* lines 298-299
        w == IF known THEN <<>> ELSE <<"Unable to handle marker">>
        ax == source_add(source, Column(line2d.xydata, 1))
        ay == source_add(ax.source, Column(line2d.xydata, 2))
    IN \* line 300
       IF ~known THEN Effect(source, xs, ys, Raise("KeyError"), w, <<>>)
       ELSE Effect(ay.source,
                   Append(xs, source_columns(ax.name)),
                   Append(ys, source_columns(ay.name)),
                   Glyph(marker_map[line2d.marker.v], line2d.id, ax.name,
                         ay.name, <<>>, [t |-> "MarkerProps"]),
                   w, <<>>)

\* multiline_props, lines 166-178: the colour and width columns added
multiline_props(source, col) ==
    LET colors == get_props_cycled(col, col.colors, "rgb2hex")
        widths == get_props_cycled(col, col.linewidth, "identity")
        ac == source_add(source, colors)
        aw == source_add(ac.source, widths)
    IN [source |-> aw.source, style |-> <<ac.name, aw.name>>]

\* patches_props, lines 181-195: the fill, edge and width columns added
patches_props(source, col) ==
    LET face_colors == get_props_cycled(col, col.colors, "rgb2hex")
        af == source_add(source, face_colors)
        edge_colors == get_props_cycled(col, col.edgecolors, "rgb2hex")
        ae == source_add(af.source, edge_colors)
        widths == get_props_cycled(col, col.linewidth, "identity")
        aw == source_add(ae.source, widths)
    IN [source |-> aw.source, style |-> <<af.name, ae.name, aw.name>>]

\* _make_lines_collection, lines 316-337.  draws: the outcomes of
\* np.random.normal in the 2 * n invocations of xkcd_line, in call order.
make_lines_collection(source, xs, ys, col, xkcd, draws) ==
    LET xydata == col.paths
        n == Len(xydata)
        \* lines 319-321
        t_xydata == [i \in 1..n |-> transpose2(xydata[i])]
        xs0 == [i \in 1..n |-> t_xydata[i][1]]
        ys0 == [i \in 1..n |-> t_xydata[i][2]]
        \* line 323: one invocation per segment, its first output kept
        xkcd_xs == [i \in 1..n |->
                      xkcd_line(xs0[i], ys0[i], PyNone, PyNone, 1, draws[i]).x]
        \* line 324: a second invocation per segment, its second output kept
        xkcd_ys == [i \in 1..n |->
                      xkcd_line(xs0[i], ys0[i], PyNone, PyNone, 1,
                                draws[n + i]).y]
        calls == IF xkcd
                 THEN [k \in 1..(2 * n) |->
                         [of |-> col.id, seg |-> IF k <= n THEN k ELSE k - n,
                          draw |-> draws[k]]]
                 ELSE <<>>
        xs1 == IF xkcd THEN xkcd_xs ELSE xs0
        ys1 == IF xkcd THEN xkcd_ys ELSE ys0
        \* lines 329-334
        ax == source_add(source, xs1)
        ay == source_add(ax.source, ys1)
        st == multiline_props(ay.source, col)
    IN Effect(st.source,
              Append(xs, source_columns(ax.name)),
              Append(ys, source_columns(ay.name)),
              Glyph("MultiLine", col.id, ax.name, ay.name, st.style,
                    [t |-> "MultiLineProps"]),
              <<>>, calls)

\* _make_polys_collection, lines 340-357
make_polys_collection(source, xs, ys, col) ==
    LET paths == col.paths
        n == Len(paths)
        \* lines 343-346
        polygons0 == [i \in 1..n |-> to_polygons(paths[i])]
        polygons == [i \in 1..n |-> transpose3(delete_last_col(polygons0[i]))]
        xs1 == [i \in 1..n |-> polygons[i][1]]
        ys1 == [i \in 1..n |-> polygons[i][2]]
        \* lines 349-354
        ax == source_add(source, xs1)
        ay == source_add(ax.source, ys1)
        st == patches_props(ay.source, col)
    IN Effect(st.source,
              Append(xs, source_columns(ax.name)),
              Append(ys, source_columns(ay.name)),
              Glyph("Patches", col.id, ax.name, ay.name, st.style,
                    [t |-> "PatchesProps"]),
              <<>>, <<>>)

\* _make_axis, lines 221-253.  The LinearAxis is constructed with plot=plot
\* at line 230, before the two text_props calls; laxis is the axis as it is
\* when _make_axis returns or raises, exc the KeyError of text_props or None.
make_axis(axis, dimension, xkcd) ==
    LET label == text_props(axis.label)
        major == text_props(axis.ticklabels[1])
        unset == [t |-> "TextProps"]
        made(l, m) == [t |-> "LinearAxis", dimension |-> dimension,
                       axis_label |-> l, major_label |-> m]
        styled(p) == IF xkcd THEN [p EXCEPT !.text_font_style = "bold",
                                            !.text_color = Str("black")]
                     ELSE p
    IN IF IsRaise(label)
       THEN [laxis |-> made(text_props_set(axis.label), unset), exc |-> label]
       ELSE IF IsRaise(major)
       THEN [laxis |-> made(label, text_props_set(axis.ticklabels[1])),
             exc |-> major]
       ELSE [laxis |-> made(styled(label), styled(major)), exc |-> PyNone]

----------------------------------------------------------------------------
(* Bounds and input sets *)

MaxChildren == 2     \* lines plus collections of an axes
MaxPaths == 5        \* paths of the collection given to _get_props_cycled
MaxProps == 3        \* length of a collection's property list
MaxTupleLen == 4     \* length of a colour tuple
MaxCoord == 3        \* coordinates of xkcd_line's input are 0..MaxCoord
MaxPoints == 3       \* points of xkcd_line's input

SeqsUpTo(S, n) == UNION {[1..k -> S] : k \in 0..n}

\* the values the "not present" test of lines 50-51 is about, and others
CapStyles == {"butt", "projecting", "flat"}

Line2D(ls, mk, cap) ==
    [id |-> <<>>, linestyle |-> ls, marker |-> mk, solid_capstyle |-> cap,
     linewidth |-> 1, xydata |-> <<<<0, 0>>, <<2, 0>>, <<2, 1>>>>]

\* linestyle and marker of the lines: each of the spellings "", " ", "None",
\* "none", "NONE" and None occurs as a linestyle and as a marker, beside
\* styles that are present and a marker that marker_map does not hold
LineMarkerStyles ==
    {<<Str("-"), Str("o")>>, <<Str("--"), Str("x")>>, <<Str("-"), Str("?")>>,
     <<Str("none"), Str("o")>>, <<Str("-"), Str("none")>>,
     <<Str("NONE"), Str("o")>>, <<Str("-"), Str("NONE")>>,
     <<Str(""), Str(" ")>>, <<Str(" "), Str("")>>,
     <<Str("None"), PyNone>>, <<PyNone, Str("None")>>}

Line2Ds ==
    {Line2D(s[1], s[2], "butt") : s \in LineMarkerStyles}
    \cup {Line2D(Str("-"), Str("o"), cap) : cap \in CapStyles}

Square == <<<<0, 0>>, <<2, 0>>, <<2, 2>>, <<0, 2>>, <<0, 0>>>>
Triangle == <<<<0, 0>>, <<2, 0>>, <<0, 2>>, <<0, 0>>>>
Segment1 == <<<<0, 0>>, <<2, 0>>>>
Segment2 == <<<<0, 0>>, <<0, 1>>, <<2, 1>>>>

Collection(kind, paths, colors) ==
    [id |-> <<>>, kind |-> kind, paths |-> paths, colors |-> colors,
     edgecolors |-> <<"k">>, linewidth |-> <<1>>]

Collections ==
    {Collection("LineCollection", <<Segment1, Segment2>>, <<"r", "g">>),
     Collection("LineCollection", <<Segment2>>, <<"r">>),
     Collection("PolyCollection", <<Square, Triangle>>, <<"b">>),
     Collection("PolyCollection", <<Square>>, <<>>),
     Collection("PathCollection", <<Square>>, <<"b">>)}

Text(style, weight, va, color) ==
    [fontstyle |-> style, weight |-> weight, verticalalignment |-> va,
     color |-> color]

FontStyles == {"normal", "italic", "oblique", "slanted"}
Weights == {"normal", "bold", "heavy", "light"}
VAligns == {"center", "top", "bottom", "baseline"}
TextColors == {Str("k"), Str("0.5")}
Texts == {Text(s, w, a, c) : s \in FontStyles, w \in Weights, a \in VAligns,
                             c \in TextColors}

Axis(labelva, tickva) ==
    [label |-> Text("normal", "normal", labelva, Str("k")),
     ticklabels |-> <<Text("normal", "normal", tickva, Str("k"))>>]

\* the axes given to axes2plot; every child carries its identity
\* (<<"line", i>> or <<"col", i>>) in the field id
WithIds(kind, s) == [i \in 1..Len(s) |-> [s[i] EXCEPT !.id = <<kind, i>>]]

\* the texts of the x axis and of the y axis: all alignments in the table,
\* or one label or one first tick label aligned on the baseline
AxisPairs ==
    {<<Axis("bottom", "top"), Axis("center", "center")>>,
     <<Axis("baseline", "top"), Axis("center", "center")>>,
     <<Axis("bottom", "top"), Axis("center", "baseline")>>}

Axes(ls, cs, ap) ==
    [lines |-> WithIds("line", ls), collections |-> WithIds("col", cs),
     xaxis |-> ap[1], yaxis |-> ap[2], bgcolor |-> "w"]

Draws == {1, 2}

ColorStrings ==
    DOMAIN charmap \cup DOMAIN FloatLiterals \cup {"red", "#ff0000", "0.5s"}
Channels == {Rat(0, 1), Rat(1, 2), Rat(1, 1)}
Colors == {Str(c) : c \in ColorStrings}
          \cup {Tuple("float", s) : s \in SeqsUpTo(Channels, MaxTupleLen)}

PropLists == SeqsUpTo({"a", "b", "c"}, MaxProps)
PathLists == SeqsUpTo({Segment1}, MaxPaths)

IsPowerOfTwo(n) == n \in {1, 2, 4, 8, 16}

\* the input of xkcd_line: at least two points, none repeated by its
\* successor; limits whose widths are powers of two and segments whose
\* rescaled length is rational, so that the floating-point operations of
\* lines 399-408 are exact; or, with the limits taken from the data, one
\* point repeated (both limits degenerate)
ValidPolyline(x, y, xlim, ylim) ==
    LET lim == xkcd_limits(x, y, xlim, ylim)
        rad == xkcd_radicands(x, y, lim)
    IN \/ /\ \A i \in 1..(Len(x) - 1) : <<x[i], y[i]>> # <<x[i + 1], y[i + 1]>>
          /\ IsPowerOfTwo(lim.x[2] - lim.x[1])
          /\ IsPowerOfTwo(lim.y[2] - lim.y[1])
          /\ \A i \in DOMAIN rad : IsSquare(rad[i])
       \/ /\ xlim = PyNone /\ ylim = PyNone
          /\ \A i \in 1..Len(x) : x[i] = x[1] /\ y[i] = y[1]

Limits == {PyNone, Tuple("int", <<0, 4>>)}
Mags == {1, 2}

----------------------------------------------------------------------------
(* State machine *)

NoPlot == [renderers |-> <<>>, axes |-> <<>>, grids |-> <<>>, tools |-> <<>>,
           background_fill |-> ""]

Init ==
    /\ pc = "idle"
    /\ fn = ""
    /\ arg = <<>>
    /\ ret = NoRet
    /\ lines = <<>>
    /\ markers = <<>>
    /\ cols = <<>>
    /\ idx = 0
    /\ renderers = <<>>
    /\ plot = NoPlot
    /\ datasource = <<>>
    /\ xdr = <<>>
    /\ ydr = <<>>
    /\ warned = <<>>
    /\ xkcd_calls = <<>>

\* lines 50-51: the test `value not in ("", " ", "None", "none", None)`
\* mutant: the test ignores the letter case of the value
present_anycase(v) ==
    v \notin {Str(""), Str(" "), Str("None"), Str("none"), Str("NONE"), PyNone}

present(v) == v \notin {Str(""), Str(" "), Str("None"), Str("none"), PyNone}

\* line 52: get_paths() is a list, equal to none of the five values
present_paths(paths) == TRUE

isinstance(col, class) == col.kind = class

\* the lists the four passes of lines 53-58 run over
Work(stage, L, M, C) ==
    CASE stage = "lines" -> L
      [] stage = "markers" -> M
      [] stage = "lcols" ->
            SelectSeq(C, LAMBDA c : isinstance(c, "LineCollection"))
      [] stage = "pcols" ->
            SelectSeq(C, LAMBDA c : isinstance(c, "PolyCollection"))

\* mutant: markers are converted before lines
StagesMarkersFirst == <<"markers", "lines", "lcols", "pcols">>

Stages == <<"lines", "markers", "lcols", "pcols">>

\* the first pass after pass number k that has work, or line 59
StageAfter(k, L, M, C) ==
    LET later == {j \in (k + 1)..Len(Stages) : Len(Work(Stages[j], L, M, C)) > 0}
    IN IF later = {} THEN "extend"
       ELSE Stages[CHOOSE j \in later : \A i \in later : j <= i]

StageNo(stage) == CHOOSE k \in 1..Len(Stages) : Stages[k] = stage

\* lines 33-52
Call_axes2plot(ax, xkcd) ==
    /\ pc = "idle"
    /\ fn' = "axes2plot"
    /\ arg' = [ax |-> ax, xkcd |-> xkcd]
    /\ plot' = [NoPlot EXCEPT !.background_fill =
                    IF ax.bgcolor = "w" THEN "white" ELSE ax.bgcolor]
    /\ lines' = SelectSeq(ax.lines, LAMBDA l : present(l.linestyle))
    /\ markers' = SelectSeq(ax.lines, LAMBDA m : present(m.marker))
    /\ cols' = SelectSeq(ax.collections, LAMBDA c : present_paths(c.paths))
    /\ pc' = StageAfter(0, lines', markers', cols')
    /\ idx' = 1
    /\ UNCHANGED <<ret, renderers, datasource, xdr, ydr, warned, xkcd_calls>>

\* one call of a _make_* helper inside lines 53-58 and what follows it: the
\* glyph is collected, or the exception leaves axes2plot
Collect(stage, e) ==
    /\ datasource' = e.source
    /\ xdr' = e.xdr
    /\ ydr' = e.ydr
    /\ warned' = warned \o e.warned
    /\ xkcd_calls' = xkcd_calls \o e.calls
    /\ IF IsRaise(e.ret)
       THEN /\ pc' = "raised"
            /\ ret' = [e.ret EXCEPT !.tb = stage]
            /\ UNCHANGED <<renderers, idx>>
       ELSE /\ renderers' = Append(renderers, e.ret)
            /\ IF idx < Len(Work(stage, lines, markers, cols))
               THEN /\ idx' = idx + 1
                    /\ pc' = pc
               ELSE /\ idx' = 1
                    /\ pc' = StageAfter(StageNo(stage), lines, markers, cols)
            /\ ret' = ret
    /\ UNCHANGED <<fn, arg, lines, markers, cols, plot>>

\* line 53
Step_make_line ==
    /\ pc = "lines"
    /\ \E draw \in IF arg.xkcd THEN Draws ELSE {1} :
          \E e \in {make_line(datasource, xdr, ydr, lines[idx], arg.xkcd,
                               draw)} : Collect("lines", e)

\* line 54
Step_make_marker ==
    /\ pc = "markers"
    /\ \E e \in {make_marker(datasource, xdr, ydr, markers[idx])} :
          Collect("markers", e)

\* lines 55-56
Step_make_lines_collection ==
    /\ pc = "lcols"
    /\ LET col == Work("lcols", lines, markers, cols)[idx]
       IN \E draws \in IF arg.xkcd THEN [1..(2 * Len(col.paths)) -> Draws]
                       ELSE {<<>>} :
             \E e \in {make_lines_collection(datasource, xdr, ydr, col,
                                              arg.xkcd, draws)} :
                Collect("lcols", e)

\* lines 57-58
Step_make_polys_collection ==
    /\ pc = "pcols"
    /\ LET col == Work("pcols", lines, markers, cols)[idx]
       IN \E e \in {make_polys_collection(datasource, xdr, ydr, col)} :
             Collect("pcols", e)

\* line 59
Step_extend ==
    /\ pc = "extend"
    /\ plot' = [plot EXCEPT !.renderers = plot.renderers \o renderers]
    /\ pc' = "xaxis"
    /\ UNCHANGED <<fn, arg, ret, lines, markers, cols, idx, renderers,
                   datasource, xdr, ydr, warned, xkcd_calls>>

\* lines 62 and 65
Step_make_axis ==
    /\ pc \in {"xaxis", "yaxis"}
    /\ \E r \in {IF pc = "xaxis" THEN make_axis(arg.ax.xaxis, 0, arg.xkcd)
                 ELSE make_axis(arg.ax.yaxis, 1, arg.xkcd)} :
          /\ plot' = [plot EXCEPT !.axes = Append(plot.axes, r.laxis)]
          /\ IF IsRaise(r.exc)
             THEN /\ pc' = "raised"
                  /\ ret' = [r.exc EXCEPT !.tb = pc]
             ELSE /\ pc' = IF pc = "xaxis" THEN "yaxis" ELSE "grids"
                  /\ ret' = ret
    /\ UNCHANGED <<fn, arg, lines, markers, cols, idx, renderers, datasource,
                   xdr, ydr, warned, xkcd_calls>>

\* lines 68-77
Step_return ==
    /\ pc = "grids"
    /\ plot' = [plot EXCEPT !.grids = <<[dimension |-> 0], [dimension |-> 1]>>,
                            !.tools = <<"PanTool", "WheelZoomTool">>]
    /\ ret' = [t |-> "Plot", v |-> plot']
    /\ pc' = "returned"
    /\ UNCHANGED <<fn, arg, lines, markers, cols, idx, renderers, datasource,
                   xdr, ydr, warned, xkcd_calls>>

\* a call of one of the module's pure functions
Returns(f, a, r) ==
    /\ pc = "idle"
    /\ pc' = IF IsRaise(r) THEN "raised" ELSE "returned"
    /\ fn' = f
    /\ arg' = a
    /\ ret' = r
    /\ UNCHANGED <<lines, markers, cols, idx, renderers, plot, datasource,
                   xdr, ydr, warned, xkcd_calls>>

Call_convert_color(mplcolor) ==
    Returns("_convert_color", [mplcolor |-> mplcolor], convert_color(mplcolor))

Call_get_props_cycled(col, prop, fx) ==
    Returns("_get_props_cycled", [col |-> col, prop |-> prop, fx |-> fx],
            [t |-> "list", v |-> get_props_cycled(col, prop, fx)])

Call_text_props(mplText) ==
    Returns("text_props", [mplText |-> mplText], text_props(mplText))

Call_xkcd_line(x, y, xlim, ylim, mag, draw) ==
    Returns("xkcd_line",
            [x |-> x, y |-> y, xlim |-> xlim, ylim |-> ylim, mag |-> mag,
             draw |-> draw],
            xkcd_line(x, y, xlim, ylim, mag, draw))

\* the calls of the module's functions on a freshly imported module
Enter_axes2plot ==
    /\ pc = "idle"
    /\ \E ls \in SeqsUpTo(Line2Ds, MaxChildren) :
          \E cs \in SeqsUpTo(Collections, MaxChildren - Len(ls)),
             ap \in AxisPairs, xkcd \in BOOLEAN :
                Call_axes2plot(Axes(ls, cs, ap), xkcd)

Enter_convert_color ==
    /\ pc = "idle"
    /\ \E c \in Colors : Call_convert_color(c)

Enter_get_props_cycled ==
    /\ pc = "idle"
    /\ \E paths \in PathLists, prop \in PropLists,
          fx \in {"rgb2hex", "identity"} :
             Call_get_props_cycled([paths |-> paths], prop, fx)

Enter_text_props ==
    /\ pc = "idle"
    /\ \E t \in Texts : Call_text_props(t)

Enter_xkcd_line ==
    /\ pc = "idle"
    /\ \E k \in 2..MaxPoints :
          \E x \in [1..k -> 0..MaxCoord], y \in [1..k -> 0..MaxCoord],
             xlim \in Limits :
                /\ ValidPolyline(x, y, xlim, PyNone)
                /\ \E mag \in Mags, draw \in Draws :
                      Call_xkcd_line(x, y, xlim, PyNone, mag, draw)

Next ==
    \/ Enter_axes2plot
    \/ Step_make_line
    \/ Step_make_marker
    \/ Step_make_lines_collection
    \/ Step_make_polys_collection
    \/ Step_extend
    \/ Step_make_axis
    \/ Step_return
    \/ Enter_convert_color
    \/ Enter_get_props_cycled
    \/ Enter_text_props
    \/ Enter_xkcd_line

Spec == Init /\ [][Next]_vars

----------------------------------------------------------------------------
(* Properties *)

Converting == fn = "axes2plot"
Converted == fn = "axes2plot" /\ pc = "returned"

\* the column names a range lists
Listed(range) == UNION {{r.columns[k] : k \in DOMAIN r.columns} :
                           r \in {range[i] : i \in DOMAIN range}}

SeqToSet(s) == {s[i] : i \in DOMAIN s}

\* C1 as stated: after a conversion, both ranges list every geometry column
\* (x and y) of every renderer.
C1_BothRangesListEveryColumn ==
    Converted =>
        \A r \in SeqToSet(plot.renderers) :
            {r.x, r.y} \subseteq Listed(xdr) /\ {r.x, r.y} \subseteq Listed(ydr)

\* C1 amended: each renderer's x column is registered in the x range and its
\* y column in the y range, and in no other range; while the conversion has
\* not raised, the x range lists exactly the renderers' x columns and the y
\* range exactly their y columns, in renderer order.
C1_EachRangeListsItsOwnColumns ==
    Converting =>
        /\ \A r \in SeqToSet(renderers) :
              /\ r.x \in Listed(xdr) /\ r.y \in Listed(ydr)
              /\ r.x \notin Listed(ydr) /\ r.y \notin Listed(xdr)
        /\ (pc # "raised" =>
              /\ xdr = [i \in 1..Len(renderers) |->
                           [source |-> "datasource", columns |-> <<renderers[i].x>>]]
              /\ ydr = [i \in 1..Len(renderers) |->
                           [source |-> "datasource", columns |-> <<renderers[i].y>>]])
        /\ (Converted => plot.renderers = renderers)

\* C1 witness: one plain line of 3 points was converted; the x range lists
\* only its x column and the y range only its y column.
C1_Witness ==
    /\ Converted
    /\ Len(arg.ax.lines) = 1 /\ Len(arg.ax.collections) = 0
    /\ Len(plot.renderers) = 1 /\ plot.renderers[1].glyph = "Line"
    /\ Len(datasource) = 2 /\ Len(datasource[1]) = 3 /\ Len(datasource[2]) = 3
    /\ Listed(xdr) = {plot.renderers[1].x}
    /\ Listed(ydr) = {plot.renderers[1].y}

\* str.lower() on the strings of the model
Lower(v) == IF v \in {Str("None"), Str("NONE")} THEN Str("none") ELSE v

\* "not present" as the claim C2 states it
AbsentAnyCase(v) == v \in {Str(""), Str(" "), PyNone} \/ Lower(v) = Str("none")

\* "not present" as the five values of lines 50-51
AbsentExact(v) == v \in {Str(""), Str(" "), Str("None"), Str("none"), PyNone}

Ids(s) == {s[i].id : i \in DOMAIN s}

GlyphsOf(id, kinds) ==
    {i \in DOMAIN renderers : renderers[i].of = id /\ renderers[i].glyph \in kinds}

MarkerGlyphs == {marker_map[m] : m \in DOMAIN marker_map}

\* C2 as stated: a line is a plain line iff its linestyle is none of "", " ",
\* None and "none" in any letter case, and a marker point iff its marker is
\* none of them.
C2_NoneInAnyCaseIsAbsent ==
    (Converting /\ pc # "idle") =>
        \A l \in SeqToSet(arg.ax.lines) :
            /\ (l.id \in Ids(lines) <=> ~AbsentAnyCase(l.linestyle))
            /\ (l.id \in Ids(markers) <=> ~AbsentAnyCase(l.marker))

\* C2 amended: a line is a plain line iff its linestyle is none of "", " ",
\* None, "None" and "none" (any other spelling, such as "NONE", is present),
\* and a marker point iff its marker is none of these five; a converted axes
\* has one line renderer per plain line and one marker renderer per marker
\* point, and no other renderer for a line.
C2_ExactSpellingsAreAbsent ==
    (Converting /\ pc # "idle") =>
        /\ (\A l \in SeqToSet(arg.ax.lines) :
              /\ (l.id \in Ids(lines) <=> ~AbsentExact(l.linestyle))
              /\ (l.id \in Ids(markers) <=> ~AbsentExact(l.marker))
              /\ (Converted =>
                    /\ Cardinality(GlyphsOf(l.id, {"Line"})) =
                          (IF AbsentExact(l.linestyle) THEN 0 ELSE 1)
                    /\ Cardinality(GlyphsOf(l.id, MarkerGlyphs)) =
                          (IF AbsentExact(l.marker) THEN 0 ELSE 1)))
        /\ lines = SelectSeq(arg.ax.lines, LAMBDA l : l.id \in Ids(lines))
        /\ markers = SelectSeq(arg.ax.lines, LAMBDA l : l.id \in Ids(markers))

\* C2 witness: a line with linestyle "none" and marker "o" and a line with
\* linestyle "-" and marker "none" were converted into one marker renderer
\* and one line renderer.
C2_Witness ==
    /\ Converted
    /\ Len(arg.ax.lines) = 2
    /\ arg.ax.lines[1].linestyle = Str("none") /\ arg.ax.lines[1].marker = Str("o")
    /\ arg.ax.lines[2].linestyle = Str("-") /\ arg.ax.lines[2].marker = Str("none")
    /\ Len(renderers) = 2
    /\ renderers[1].glyph = "Line" /\ renderers[1].of = <<"line", 2>>
    /\ renderers[2].glyph = "Circle" /\ renderers[2].of = <<"line", 1>>

BadMarker(l) == ~AbsentExact(l.marker) /\ l.marker.v \notin DOMAIN marker_map
BadCap(l) == ~AbsentExact(l.linestyle)
             /\ l.solid_capstyle \notin DOMAIN cap_style_map
BadAlign(axis) ==
    \/ axis.label.verticalalignment \notin DOMAIN alignment_map
    \/ axis.ticklabels[1].verticalalignment \notin DOMAIN alignment_map

MissingTableValue(ax) ==
    \/ \E l \in SeqToSet(ax.lines) : BadMarker(l) \/ BadCap(l)
    \/ BadAlign(ax.xaxis) \/ BadAlign(ax.yaxis)

\* C3: an axes with a marker symbol, a cap style or a vertical alignment
\* missing from its table is never converted: no pass gets beyond the missing
\* value, the call ends with a KeyError, and only such an axes raises.  When
\* the marker lookup fails, exactly one warning was issued and the data source
\* holds the two columns of each renderer made before and none for the marker.
C3_MissingTableValueAborts ==
    Converting =>
        /\ (Converted => ~MissingTableValue(arg.ax))
        /\ (pc \in {"extend", "xaxis", "yaxis", "grids"} =>
              (\A l \in SeqToSet(arg.ax.lines) : ~BadMarker(l) /\ ~BadCap(l)))
        /\ (pc \in {"markers", "lcols", "pcols"} =>
              (\A l \in SeqToSet(arg.ax.lines) : ~BadCap(l)))
        /\ (pc \in {"yaxis", "grids"} => ~BadAlign(arg.ax.xaxis))
        /\ (pc = "raised" =>
              (ret.t = "raise" /\ ret.v = "KeyError" /\ MissingTableValue(arg.ax)))
        /\ ((pc = "raised" /\ ret.tb = "markers") =>
              /\ warned = <<"Unable to handle marker">>
              /\ BadMarker(markers[idx])
              /\ Len(datasource) = 2 * Len(renderers))
        /\ (~(pc = "raised" /\ ret.tb = "markers") => warned = <<>>)

\* C3 witness: the marker lookup failed after a line and a marker had been
\* converted.
C3_Witness ==
    /\ Converting /\ pc = "raised" /\ ret.tb = "markers"
    /\ Len(renderers) = 2 /\ Len(datasource) = 4
    /\ Len(warned) = 1

CallOf(f) == fn = f /\ pc \in {"returned", "raised"}

\* C4 as stated: the result has exactly n elements for every k and n.
C4_CycledHasNElementsForEveryK ==
    CallOf("_get_props_cycled") => Len(ret.v) = Len(arg.col.paths)

ColumnLen(name) == Len(datasource[name])

\* the property list a style column of a renderer was cycled from
StyleSource(r, k) ==
    LET col == arg.ax.collections[r.of[2]]
    IN IF r.glyph = "MultiLine" THEN <<col.colors, col.linewidth>>[k]
       ELSE <<col.colors, col.edgecolors, col.linewidth>>[k]

\* C4 amended: for a source sequence of length k >= 1 the result has exactly
\* n elements, element i being fx of source element (i mod k); for k = 0 the
\* result is empty whatever n is.  Every colour and width column of a
\* converted collection has the length n of its geometry columns when its
\* source sequence is not empty, and length 0 when it is.
C4_CycledWhenNotEmpty ==
    /\ (CallOf("_get_props_cycled") =>
          LET n == Len(arg.col.paths)
              k == Len(arg.prop)
          IN /\ (k >= 1 =>
                   /\ Len(ret.v) = n
                   /\ (\A i \in 0..(n - 1) :
                         ret.v[i + 1] = (IF arg.fx = "rgb2hex"
                                         THEN [t |-> "hex", v |-> arg.prop[(i % k) + 1]]
                                         ELSE arg.prop[(i % k) + 1])))
             /\ (k = 0 => ret.v = <<>>))
    /\ (Converting =>
          (\A r \in SeqToSet(renderers) : \A j \in DOMAIN r.style :
              /\ ColumnLen(r.x) = Len(arg.ax.collections[r.of[2]].paths)
              /\ ColumnLen(r.y) = ColumnLen(r.x)
              /\ ColumnLen(r.style[j]) =
                    (IF Len(StyleSource(r, j)) = 0 THEN 0 ELSE ColumnLen(r.x))))

\* C4 witness: [a, b] cycled over 5 paths gave [a, b, a, b, a].
C4_Witness ==
    /\ CallOf("_get_props_cycled")
    /\ arg.prop = <<"a", "b">> /\ arg.fx = "identity" /\ Len(arg.col.paths) = 5
    /\ ret.v = <<"a", "b", "a", "b", "a">>

GreyOf(f) == Tuple("int", <<Int255(f), Int255(f), Int255(f)>>)

\* the letters, and the numeric strings in [0, 1], with their values
Letters == {"b", "g", "r", "c", "m", "y", "k", "w"}
UnitStrings == {"0", "1", "0.0", "1.0", "0.5", "0.25", "0.75", "0.2"}

\* C5 as stated: letters give names, numeric strings in [0, 1] grey triples,
\* 3-tuples per-channel triples, and every other input, a tuple that is not
\* a 3-tuple included, is returned unchanged.
C5_OtherTuplesUnchanged ==
    CallOf("_convert_color") =>
        LET c == arg.mplcolor
        IN /\ ((c.t = "str" /\ c.v \in Letters) => ret = Str(charmap[c.v]))
           /\ ((c.t = "str" /\ c.v \in UnitStrings) =>
                  ret = GreyOf(FloatLiterals[c.v]))
           /\ ((c.t = "tuple" /\ Len(c.v) = 3) =>
                  ret = Tuple("int", <<Int255(c.v[1]), Int255(c.v[2]),
                                       Int255(c.v[3])>>))
           /\ ((c.t = "str" /\ c.v \notin Letters \cup UnitStrings) => ret = c)
           /\ ((c.t = "tuple" /\ Len(c.v) # 3) => ret = c)

\* C5 amended: letters give names, numeric strings in [0, 1] grey triples of
\* int(255 v) ("0.5" gives (127, 127, 127)); a tuple of at least 3 elements
\* gives the triple of its first three channels, so a 4-element RGBA tuple
\* loses its alpha ((1.0, 0.0, 0.0) and (1.0, 0.0, 0.0, 1.0) give
\* (255, 0, 0)); a tuple of fewer than 3 elements raises IndexError; every
\* other string is returned unchanged.
C5_TuplesAreCutToThreeChannels ==
    CallOf("_convert_color") =>
        LET c == arg.mplcolor
        IN /\ ((c.t = "str" /\ c.v \in Letters) => ret = Str(charmap[c.v]))
           /\ ((c.t = "str" /\ c.v \in UnitStrings) =>
                  ret = GreyOf(FloatLiterals[c.v]))
           /\ (c = Str("0.5") => ret = Tuple("int", <<127, 127, 127>>))
           /\ ((c.t = "tuple" /\ Len(c.v) >= 3) =>
                  ret = Tuple("int", <<Int255(c.v[1]), Int255(c.v[2]),
                                       Int255(c.v[3])>>))
           /\ ((c.t = "tuple" /\ Len(c.v) >= 3
                /\ SubSeq(c.v, 1, 3) = <<Rat(1, 1), Rat(0, 1), Rat(0, 1)>>) =>
                  ret = Tuple("int", <<255, 0, 0>>))
           /\ ((c.t = "tuple" /\ Len(c.v) < 3) =>
                  (ret.t = "raise" /\ ret.v = "IndexError"))
           /\ ((c.t = "str" /\ c.v \notin Letters \cup UnitStrings) => ret = c)

\* C5 witness: the RGBA tuple (1.0, 0.0, 0.0, 1.0) gave (255, 0, 0).
C5_Witness ==
    /\ CallOf("_convert_color")
    /\ arg.mplcolor = Tuple("float", <<Rat(1, 1), Rat(0, 1), Rat(0, 1), Rat(1, 1)>>)
    /\ ret = Tuple("int", <<255, 0, 0>>)

\* the font style the claim C6 names for a text
ClaimedFontStyle(text) ==
    IF text.weight \in {"bold", "heavy"} THEN "bold"
    ELSE IF text.fontstyle \in {"oblique", "italic"} THEN "italic"
    ELSE "normal"

\* text_props got beyond the colour and the alignment of the text
RestOfTextIsFine(text) ==
    /\ text.verticalalignment \in {"center", "top", "bottom"}
    /\ ~(text.color.t = "tuple" /\ Len(text.color.v) < 3)

\* C6 as stated: for every source text the font style ends up "bold" for the
\* weights bold and heavy, else "italic" for the styles oblique and italic,
\* and "normal" for any other style.
C6_OtherStylesAreNormal ==
    (CallOf("text_props") /\ RestOfTextIsFine(arg.mplText)) =>
        (ret.t = "TextProps"
         /\ ret.text_font_style = ClaimedFontStyle(arg.mplText))

\* C6 amended: for a source style among normal, italic and oblique the font
\* style ends up "bold" for the weights bold and heavy, else "italic" for the
\* styles oblique and italic and "normal" for the style normal; any other
\* source style raises KeyError, whatever the weight.
C6_StylesOfTheTable ==
    CallOf("text_props") =>
        LET text == arg.mplText
        IN /\ ((text.fontstyle \in {"normal", "italic", "oblique"}
                /\ RestOfTextIsFine(text)) =>
                  (ret.t = "TextProps"
                   /\ ret.text_font_style = ClaimedFontStyle(text)))
           /\ (text.fontstyle \notin {"normal", "italic", "oblique"} =>
                  (ret.t = "raise" /\ ret.v = "KeyError"))

\* C6 witness: a bold italic text ended up bold.
C6_Witness ==
    /\ CallOf("text_props")
    /\ arg.mplText.fontstyle = "italic" /\ arg.mplText.weight = "bold"
    /\ ret.t = "TextProps" /\ ret.text_font_style = "bold"

Closed(path) == path[Len(path)] = path[1]

\* C7: for every converted polygon collection the xs and ys columns hold one
\* entry per path, in path order, and the entry of a closed path of m
\* vertices holds the m - 1 coordinates of its first m - 1 vertices in their
\* order (each coordinate as a one-element row of the transposed array).
C7_ClosingVertexDropped ==
    Converting =>
        \A r \in SeqToSet(renderers) :
            r.glyph = "Patches" =>
                LET paths == arg.ax.collections[r.of[2]].paths
                    xs == datasource[r.x]
                    ys == datasource[r.y]
                IN /\ Len(xs) = Len(paths) /\ Len(ys) = Len(paths)
                   /\ \A i \in DOMAIN paths :
                         Closed(paths[i]) =>
                            LET m == Len(paths[i])
                            IN /\ Len(xs[i]) = m - 1 /\ Len(ys[i]) = m - 1
                               /\ \A j \in 1..(m - 1) :
                                     /\ xs[i][j] = <<paths[i][j][1]>>
                                     /\ ys[i][j] = <<paths[i][j][2]>>

\* C7 witness: a closed square of 5 vertices was converted into 4 coordinate
\* pairs.
C7_Witness ==
    /\ Converted
    /\ \E i \in DOMAIN renderers :
          /\ renderers[i].glyph = "Patches"
          /\ arg.ax.collections[renderers[i].of[2]].paths[1] = Square
          /\ Len(Square) = 5
          /\ Len(datasource[renderers[i].x][1]) = 4
          /\ Len(datasource[renderers[i].y][1]) = 4

\* C8: xkcd_line returns two arrays of the same length N = int(200 L), L the
\* length of the path in the rescaled space: N <= 200 L < N + 1.  The first
\* sample returned is the one at the start of the path (u = 0) and the last
\* the one at its end, the samples before and after are dropped.  N is a
\* function of x, y and the limits alone.
C8_OutputLength ==
    (CallOf("xkcd_line") /\ pc = "returned") =>
        LET lim == xkcd_limits(arg.x, arg.y, arg.xlim, arg.ylim)
            L == dist_tot(arg.x, arg.y, lim)
            N == ret.x.n
        IN /\ ret.y.n = N
           /\ N * L.d <= 200 * L.n /\ 200 * L.n < (N + 1) * L.d
           /\ ret.x.first = 0 /\ ret.y.first = 0

\* C8 witness: the segment from (0, 0) to (2, 0) drawn with mag = 2 gave 200
\* points.
C8_Witness ==
    /\ CallOf("xkcd_line") /\ pc = "returned"
    /\ arg.x = <<0, 2>> /\ arg.y = <<0, 0>> /\ arg.xlim = PyNone
    /\ arg.mag = 2 /\ arg.draw = 2
    /\ ret.x.n = 200 /\ ret.y.n = 200

\* the invocations of xkcd_line made for a child of the axes
CallsFor(id) == SelectSeq(xkcd_calls, LAMBDA c : c.of = id)

\* C9: in sketch mode the filter runs once per segment of a line collection:
\* n invocations for n segments, and the x and y arrays stored for a segment
\* carry the perturbation of one and the same invocation.
C9_OneFilterRunPerSegment ==
    (Converting /\ arg.xkcd) =>
        \A r \in SeqToSet(renderers) :
            r.glyph = "MultiLine" =>
                LET n == Len(arg.ax.collections[r.of[2]].paths)
                IN /\ Len(CallsFor(r.of)) = n
                   /\ \A i \in 1..n :
                         datasource[r.x][i].noise = datasource[r.y][i].noise

\* plain lines, marker points and collections of an axes, by the five values
\* of lines 50-51 and the collection's class
Expected(ax) ==
    LET ls == SelectSeq(ax.lines, LAMBDA l : ~AbsentExact(l.linestyle))
        ms == SelectSeq(ax.lines, LAMBDA l : ~AbsentExact(l.marker))
        lc == SelectSeq(ax.collections, LAMBDA c : c.kind = "LineCollection")
        pc_ == SelectSeq(ax.collections, LAMBDA c : c.kind = "PolyCollection")
    IN [i \in 1..Len(ls) |-> <<"Line", ls[i].id>>]
       \o [i \in 1..Len(ms) |-> <<marker_map[ms[i].marker.v], ms[i].id>>]
       \o [i \in 1..Len(lc) |-> <<"MultiLine", lc[i].id>>]
       \o [i \in 1..Len(pc_) |-> <<"Patches", pc_[i].id>>]

RECURSIVE Flatten(_)
Flatten(ss) == IF Len(ss) = 0 THEN <<>> ELSE ss[1] \o Flatten(Tail(ss))

\* C10: a converted plot holds one renderer per plain line, per marker point,
\* per line-segment collection and per polygon collection and no other, in
\* this order and within each group in the order of the axes' children; the
\* columns of the data source were appended in the order of the renderers.
C10_RenderersInPassOrder ==
    Converted =>
        /\ [i \in 1..Len(plot.renderers) |->
               <<plot.renderers[i].glyph, plot.renderers[i].of>>]
              = Expected(arg.ax)
        /\ Flatten([i \in 1..Len(plot.renderers) |->
                       <<plot.renderers[i].x, plot.renderers[i].y>>
                       \o plot.renderers[i].style])
              = [k \in 1..Len(datasource) |-> k]

\* C10 witness: a line with linestyle and marker and a polygon collection
\* were converted into three renderers, line, marker and patches, over the
\* columns 1 to 9.
C10_Witness ==
    /\ Converted
    /\ Len(arg.ax.lines) = 1 /\ Len(arg.ax.collections) = 1
    /\ [i \in 1..Len(plot.renderers) |-> plot.renderers[i].glyph]
          = <<"Line", "Circle", "Patches">>
    /\ Len(datasource) = 9

====
